---- MODULE Spec2Model ----
(***************************************************************************)
(* Model of app/audio_utils.py: convert_to_wav, get_audio_length and       *)
(* plot_waveform.  Each call is one atomic step of a single-threaded       *)
(* caller.  The state holds the record of the last call (its arguments,    *)
(* the ordered effects and the log lines of the function body, the lines   *)
(* the decorator around it added to the log, and the outcome) and the one  *)
(* piece of process-wide state the module touches: the number of open      *)
(* pyplot figures.                                                         *)
(*                                                                         *)
(* Text is a sequence of code points (bytes for a byte string), so that    *)
(* str.lower, str.endswith, bytes.decode, str.strip and os.path.join are   *)
(* computed the way Python computes them.  Durations and time values are   *)
(* exact fractions [num, den].                                             *)
(***************************************************************************)
EXTENDS Integers, Sequences, FiniteSets

VARIABLES op, args, events, log, wrapperLog, outcome, exc, ret, cmd, saved,
          timeAxis, figs, figsBefore

vars == <<op, args, events, log, wrapperLog, outcome, exc, ret, cmd, saved,
          timeAxis, figs, figsBefore>>

\* ------------------------------------------------------------------ bounds
MaxFrames == 1
MaxDataBytes == 4
MaxRate == 1
MaxLength == 1
MaxErrLen == 2
MaxFigs == 3

\* ------------------------------------------------------- text primitives
DotM4a == <<46, 109, 52, 97>>      \* ".m4a"
DotWav == <<46, 119, 97, 118>>     \* ".wav"
Slash == <<47>>                    \* "/"

\* Mutant: the comparison keeps the letter case.
lower_char_identity(c) == c

\* str.lower() on ASCII text: 'A'..'Z' map to 'a'..'z', the rest is kept.
lower_char(c) == IF c >= 65 /\ c <= 90 THEN c + 32 ELSE c

lower(s) == [i \in 1..Len(s) |-> lower_char(s[i])]

\* str.endswith(suffix)
endswith(s, suffix) ==
    /\ Len(s) >= Len(suffix)
    /\ SubSeq(s, Len(s) - Len(suffix) + 1, Len(s)) = suffix

\* str.startswith(prefix)
startswith(s, prefix) ==
    /\ Len(s) >= Len(prefix)
    /\ SubSeq(s, 1, Len(prefix)) = prefix

\* posixpath.join(a, b) for two components.
os_path_join(a, b) ==
    IF startswith(b, Slash) THEN b
    ELSE IF a = <<>> \/ endswith(a, Slash) THEN a \o b
    ELSE a \o Slash \o b

\* bytes.decode() with the defaults (UTF-8, errors='strict'):
\* [ok |-> FALSE] stands for UnicodeDecodeError.
RECURSIVE utf8_decode(_)
utf8_decode(b) ==
    IF b = <<>> THEN [ok |-> TRUE, text |-> <<>>]
    ELSE
      LET b1 == b[1]
          need == IF b1 < 128 THEN 1
                  ELSE IF b1 >= 194 /\ b1 <= 223 THEN 2
                  ELSE IF b1 >= 224 /\ b1 <= 239 THEN 3
                  ELSE IF b1 >= 240 /\ b1 <= 244 THEN 4
                  ELSE 0
          valid == /\ need > 0
                   /\ Len(b) >= need
                   /\ \A i \in 2..need : b[i] >= 128 /\ b[i] <= 191
                   /\ (b1 = 224 => b[2] >= 160)
                   /\ (b1 = 237 => b[2] <= 159)
                   /\ (b1 = 240 => b[2] >= 144)
                   /\ (b1 = 244 => b[2] <= 143)
          cp == CASE need = 1 -> b1
                  [] need = 2 -> (b1 - 192) * 64 + (b[2] - 128)
                  [] need = 3 -> (b1 - 224) * 4096 + (b[2] - 128) * 64
                                 + (b[3] - 128)
                  [] OTHER    -> (b1 - 240) * 262144 + (b[2] - 128) * 4096
                                 + (b[3] - 128) * 64 + (b[4] - 128)
      IN IF ~valid THEN [ok |-> FALSE, text |-> <<>>]
         ELSE LET rest == utf8_decode(SubSeq(b, need + 1, Len(b)))
              IN IF rest.ok THEN [ok |-> TRUE, text |-> <<cp>> \o rest.text]
                 ELSE [ok |-> FALSE, text |-> <<>>]

\* str.isspace() of one code point.
isspace(c) ==
    c \in (9..13) \cup (28..32) \cup {133, 160, 5760} \cup (8192..8202)
          \cup {8232, 8233, 8239, 8287, 12288}

\* str.strip()
RECURSIVE strip(_)
strip(s) ==
    IF s = <<>> THEN s
    ELSE IF isspace(s[1]) THEN strip(Tail(s))
    ELSE IF isspace(s[Len(s)]) THEN strip(SubSeq(s, 1, Len(s) - 1))
    ELSE s

\* ---------------------------------------------------------------- numbers
Frac(n, d) == [num |-> n, den |-> d]
Zero == Frac(0, 1)

\* numpy.linspace(0.0, stop, num=n) with the default endpoint=True:
\* n = 0 gives the empty array, n = 1 gives [0.0]; otherwise the step is
\* stop / (n - 1) and the last element is set to stop itself.
linspace(stop, n) ==
    [i \in 1..n |->
        IF n = 1 THEN Zero
        ELSE IF i = n THEN stop
        ELSE Frac((i - 1) * stop.num, stop.den * (n - 1))]

\* ------------------------------------------------------------- exceptions
\* The classes an exception is an instance of (its own class and its bases).
Mro(e) ==
    CASE e = "CalledProcessError" ->
              {"CalledProcessError", "SubprocessError", "Exception"}
      [] e = "FileNotFoundError" -> {"FileNotFoundError", "OSError", "Exception"}
      [] e = "OSError" -> {"OSError", "Exception"}
      [] e = "UnicodeDecodeError" ->
              {"UnicodeDecodeError", "UnicodeError", "ValueError", "Exception"}
      [] e = "ValueError" -> {"ValueError", "Exception"}
      [] e = "ZeroDivisionError" ->
              {"ZeroDivisionError", "ArithmeticError", "Exception"}
      [] e = "EOFError" -> {"EOFError", "Exception"}
      [] e = "wave.Error" -> {"wave.Error", "Exception"}
      [] e = "RuntimeError" -> {"RuntimeError", "Exception"}
      [] e = "MutagenError" -> {"MutagenError", "Exception"}
      [] e = "MP4StreamInfoError" ->
              {"MP4StreamInfoError", "MutagenError", "Exception"}
      [] OTHER -> {e}

\* Whether a clause "except cls" handles exception e.
Catches(cls, e) == cls \in Mro(e)

\* ------------------------------------------------------- result of a call
\* What one call did: its ordered effects, the lines its body logged, how
\* it ended, the encoder command line, the images saved, the time axis and
\* the open-figure count it leaves behind.
Result(ev, lg, out, e, r, c, sv, t, f) ==
    [events |-> ev, log |-> lg, wrapperLog |-> <<>>, outcome |-> out,
     exc |-> e, ret |-> r, cmd |-> c, saved |-> sv, time |-> t, figs |-> f]

Line(level, text, a) == [level |-> level, text |-> text, args |-> a]

\* --------------------------------------------------------- convert_to_wav
\* Mutant: the encoder is asked for the input's own sample rate and channels.
ffmpeg_cmd_unnormalised(input_path, output_path) ==
    <<"ffmpeg", "-i", input_path, "-acodec", "pcm_s16le", output_path>>

ffmpeg_cmd(input_path, output_path) ==
    <<"ffmpeg", "-i", input_path, "-acodec", "pcm_s16le", "-ac", "1",
      "-ar", "16000", output_path>>

\* subprocess.run(cmd, check=True, stdout=PIPE, stderr=PIPE): the program
\* may be impossible to start, or runs to an exit status; check=True turns
\* a non-zero status into CalledProcessError carrying the captured stderr.
subprocess_run(proc) ==
    IF proc.kind = "notfound" THEN [raised |-> TRUE, exc |-> "FileNotFoundError"]
    ELSE IF proc.returncode # 0
         THEN [raised |-> TRUE, exc |-> "CalledProcessError"]
    ELSE [raised |-> FALSE, exc |-> ""]

convert_to_wav(input_path, output_path, proc, f) ==
    LET c == ffmpeg_cmd(input_path, output_path)
        r == subprocess_run(proc)
    IN IF ~r.raised
       THEN Result(<<"subprocess.run", "logging.info">>,
                   <<Line("INFO", "Converted {} to {}",
                          <<input_path, output_path>>)>>,
                   "return", "", <<>>, c, <<>>, <<>>, f)
       ELSE IF Catches("CalledProcessError", r.exc)
       THEN LET d == utf8_decode(proc.stderr)
            IN IF d.ok
               THEN Result(<<"subprocess.run", "logging.error">>,
                           <<Line("ERROR", "Error converting file {} to WAV: {}",
                                  <<input_path, strip(d.text)>>)>>,
                           "raise", r.exc, <<>>, c, <<>>, <<>>, f)
               ELSE Result(<<"subprocess.run">>, <<>>,
                           "raise", "UnicodeDecodeError", <<>>, c, <<>>, <<>>, f)
       ELSE Result(<<"subprocess.run">>, <<>>,
                   "raise", r.exc, <<>>, c, <<>>, <<>>, f)

\* ------------------------------------------------------------ file contents
\* What is stored at a path.  The kinds of files that are no readable WAV
\* are told apart by the first step of the reader (wave.open) that fails:
\*   "missing"    nothing: the file cannot be opened;
\*   "shortread"  the reader runs out of bytes where it unpacks them: the
\*                file has fewer than 8 bytes (0, 3, 7 bytes), or it is
\*                RIFF/WAVE and its fmt chunk yields fewer than the 14 bytes
\*                of its fixed fields, or has the PCM tag and yields fewer
\*                than 16 bytes, whether the chunk declares fewer (a
\*                complete file with a 14-byte fmt chunk), or the file or
\*                the enclosing RIFF chunk ends inside the body;
\*   "overrun"    RIFF/WAVE whose fmt chunk, or a chunk of another name
\*                before the data chunk, declares a body that (with the
\*                padding byte of an odd size) reaches beyond the end the
\*                RIFF chunk declares;
\*   "garbage"    every other file of 8 bytes or more that the reader
\*                refuses: the first four bytes are not RIFF, the form type
\*                is not WAVE or is absent, the format tag is not PCM, the
\*                channel count or the sample width is 0, the data chunk
\*                comes before the fmt chunk, or the file (or the RIFF
\*                chunk) ends before a fmt chunk and the complete 8-byte
\*                header of a data chunk were read, which includes a file
\*                cut inside the header of the fmt or the data chunk;
\*   "mp4"        an MPEG-4 container reporting a duration;
\*   "wav"        a file the reader opens: RIFF/WAVE with a PCM fmt chunk of
\*                16 bytes or more followed by the header of a data chunk.
\*                nframes is the size the data chunk declares divided by the
\*                frame size, rounded down; rate is the declared frame rate
\*                (any value, 0 included); databytes is the number of bytes
\*                readframes(-1) returns, which is what the file really
\*                holds of the declared data.  The two are independent:
\*                the file may be cut anywhere after the header of the data
\*                chunk, and the declared size need not be a whole number
\*                of frames.
Content(kind, length, nframes, rate, databytes) ==
    [kind |-> kind, length |-> length, nframes |-> nframes, rate |-> rate,
     databytes |-> databytes]

Contents ==
    {Content(k, 0, 0, 0, 0) :
        k \in {"missing", "shortread", "overrun", "garbage"}}
    \cup {Content("mp4", l, 0, 0, 0) : l \in 0..MaxLength}
    \cup {Content("wav", 0, n, r, b) :
            n \in 0..MaxFrames, r \in 0..MaxRate, b \in 0..MaxDataBytes}

\* mutagen.mp4.MP4(file_path)
MP4(content) ==
    CASE content.kind = "mp4" ->
            [raised |-> FALSE, exc |-> "", length |-> Frac(content.length, 1)]
      [] content.kind = "missing" ->
            [raised |-> TRUE, exc |-> "MutagenError", length |-> Zero]
      [] OTHER ->
            [raised |-> TRUE, exc |-> "MP4StreamInfoError", length |-> Zero]

\* wave.open(path, 'rb'): builtins.open fails on a missing file; the chunk
\* reader raises EOFError when it cannot unpack the first chunk header or
\* the fields of the fmt chunk, RuntimeError when it skips a chunk beyond
\* the end of the RIFF chunk, and wave.Error on every other file it refuses
\* (the end of file inside a later chunk header ends the chunk loop, and the
\* missing chunk is then reported as wave.Error).
wave_open(content) ==
    CASE content.kind = "wav" -> [raised |-> FALSE, exc |-> ""]
      [] content.kind = "missing" -> [raised |-> TRUE, exc |-> "FileNotFoundError"]
      [] content.kind = "shortread" -> [raised |-> TRUE, exc |-> "EOFError"]
      [] content.kind = "overrun" -> [raised |-> TRUE, exc |-> "RuntimeError"]
      [] OTHER -> [raised |-> TRUE, exc |-> "wave.Error"]

\* ------------------------------------------------------- get_audio_length
\* Mutant: the handler is narrowed to "except OSError".
get_audio_length_except_oserror(ev, e, file_path, f) ==
    IF Catches("OSError", e)
    THEN Result(ev \o <<"logging.error">>,
                <<Line("ERROR", "Error getting audio length for {}: {}",
                       <<file_path, e>>)>>,
                "return", "", <<Zero>>, <<>>, <<>>, <<>>, f)
    ELSE Result(ev, <<>>, "raise", e, <<>>, <<>>, <<>>, <<>>, f)

\* The handler "except Exception as e" of get_audio_length.
get_audio_length_except(ev, e, file_path, f) ==
    IF Catches("Exception", e)
    THEN Result(ev \o <<"logging.error">>,
                <<Line("ERROR", "Error getting audio length for {}: {}",
                       <<file_path, e>>)>>,
                "return", "", <<Zero>>, <<>>, <<>>, <<>>, f)
    ELSE Result(ev, <<>>, "raise", e, <<>>, <<>>, <<>>, <<>>, f)

get_audio_length(file_path, content, f) ==
    IF endswith(lower(file_path), DotM4a)
    THEN LET audio == MP4(content)
         IN IF audio.raised
            THEN get_audio_length_except(<<"MP4">>, audio.exc, file_path, f)
            ELSE Result(<<"MP4">>, <<>>, "return", "", <<audio.length>>,
                        <<>>, <<>>, <<>>, f)
    ELSE IF endswith(lower(file_path), DotWav)
    THEN LET audio_file == wave_open(content)
         IN IF audio_file.raised
            THEN get_audio_length_except(<<"wave.open">>, audio_file.exc,
                                         file_path, f)
            ELSE IF content.rate = 0
            THEN get_audio_length_except(<<"wave.open", "wave.close">>,
                                         "ZeroDivisionError", file_path, f)
            ELSE Result(<<"wave.open", "wave.close">>, <<>>, "return", "",
                        <<Frac(content.nframes, content.rate)>>,
                        <<>>, <<>>, <<>>, f)
    ELSE Result(<<"logging.error">>,
                <<Line("ERROR", "Unsupported audio format for {}",
                       <<file_path>>)>>,
                "return", "", <<Zero>>, <<>>, <<>>, <<>>, f)

\* ---------------------------------------------------------- plot_waveform
\* The "with wave.open(...)" block: readframes(-1) returns every byte the
\* data chunk holds (a trailing partial frame included, fewer bytes than the
\* header declares when the file is cut); the bytes are viewed as 16-bit
\* integers (an odd byte count is refused), and the time axis is built from
\* the number of such integers and the frame rate.
read_wav(content) ==
    LET audio_file == wave_open(content)
        nbytes == content.databytes
        n == nbytes \div 2
    IN IF audio_file.raised
       THEN [raised |-> TRUE, exc |-> audio_file.exc, events |-> <<"wave.open">>,
             time |-> <<>>]
       ELSE IF nbytes % 2 # 0
       THEN [raised |-> TRUE, exc |-> "ValueError",
             events |-> <<"wave.open", "wave.close">>, time |-> <<>>]
       ELSE IF content.rate = 0
       THEN [raised |-> TRUE, exc |-> "ZeroDivisionError",
             events |-> <<"wave.open", "wave.close">>, time |-> <<>>]
       ELSE [raised |-> FALSE, exc |-> "",
             events |-> <<"wave.open", "wave.close">>,
             time |-> linspace(Frac(n, content.rate), n)]

\* The handler "except Exception as e" of plot_waveform.
plot_waveform_except(ev, e, wav_file, t, f) ==
    IF Catches("Exception", e)
    THEN Result(ev \o <<"logging.error">>,
                <<Line("ERROR", "Error plotting waveform for {}: {}",
                       <<wav_file, e>>)>>,
                "raise", e, <<>>, <<>>, <<>>, t, f)
    ELSE Result(ev, <<>>, "raise", e, <<>>, <<>>, <<>>, t, f)

\* Mutant: the figure is saved before the directory is ensured.
render_and_save_early(ev, wav_file, output_path, filename, dirRes, saveRes, t, f) ==
    LET drawn == ev \o <<"plt.figure", "plt.plot", "plt.title", "plt.xlabel",
                         "plt.ylabel">>
        file_path == os_path_join(output_path, filename)
    IN IF saveRes # "ok"
       THEN plot_waveform_except(drawn \o <<"plt.savefig">>, saveRes,
                                 wav_file, t, f + 1)
       ELSE IF dirRes # "ok"
       THEN plot_waveform_except(drawn \o <<"plt.savefig", "ensure_dir">>,
                                 dirRes, wav_file, t, f + 1)
       ELSE Result(drawn \o <<"plt.savefig", "ensure_dir", "plt.close",
                              "logging.info">>,
                   <<Line("INFO", "Waveform plot saved to {}", <<file_path>>)>>,
                   "return", "", <<>>, <<>>, <<file_path>>, t, f)

\* From plt.figure to the informational log line.  ev are the effects so
\* far, t the time axis, f the number of figures open at entry.
render_and_save(ev, wav_file, output_path, filename, dirRes, saveRes, t, f) ==
    LET drawn == ev \o <<"plt.figure", "plt.plot", "plt.title", "plt.xlabel",
                         "plt.ylabel">>
        file_path == os_path_join(output_path, filename)
    IN IF dirRes # "ok"
       THEN plot_waveform_except(drawn \o <<"ensure_dir">>, dirRes,
                                 wav_file, t, f + 1)
       ELSE IF saveRes # "ok"
       THEN plot_waveform_except(drawn \o <<"ensure_dir", "plt.savefig">>,
                                 saveRes, wav_file, t, f + 1)
       ELSE Result(drawn \o <<"ensure_dir", "plt.savefig", "plt.close",
                              "logging.info">>,
                   <<Line("INFO", "Waveform plot saved to {}", <<file_path>>)>>,
                   "return", "", <<>>, <<>>, <<file_path>>, t, f)

plot_waveform(wav_file, output_path, filename, content, dirRes, saveRes, f) ==
    LET r == read_wav(content)
    IN IF r.raised
       THEN plot_waveform_except(r.events, r.exc, wav_file, r.time, f)
       ELSE render_and_save(r.events, wav_file, output_path, filename,
                            dirRes, saveRes, r.time, f)

\* ------------------------------------------------------ external wrappers
\* The decorator applied to the three functions, an error-logging wrapper
\* at the call boundary: a normal return of the body is handed to the
\* caller untouched; a failure that leaves the body is logged at error
\* level by the wrapper and then, following the failure policy of the
\* function, re-signaled ("rethrow": convert_to_wav, plot_waveform) or
\* turned into the default value 0 ("default": get_audio_length).  The
\* line of the wrapper is kept apart from the record of the body: events
\* and log are what the function of audio_utils.py did, wrapperLog what the
\* wrapper wrote to the same logging stream after it.
safe_file_operation(policy, r) ==
    IF r.outcome # "raise" THEN r
    ELSE IF policy = "rethrow"
    THEN [r EXCEPT !.wrapperLog = <<Line("ERROR", "safe_file_operation: {}",
                                         <<r.exc>>)>>]
    ELSE [r EXCEPT !.wrapperLog = <<Line("ERROR", "safe_file_operation: {}",
                                         <<r.exc>>)>>,
                   !.outcome = "return",
                   !.exc = "",
                   !.ret = <<Zero>>]

\* ensure_dir(path): idempotent directory creation, which succeeds or fails
\* with an OSError.
EnsureDirOutcomes == {"ok", "OSError"}

\* plt.savefig(path): succeeds, or fails because the file cannot be written.
SavefigOutcomes == {"ok", "OSError"}

\* What the environment holds is drawn when the call reaches it: the file
\* is opened only when the suffix of the name is supported, ensure_dir is
\* called only after the file was read and the axis built, savefig only
\* after ensure_dir succeeded.
ContentsFor(file_path) ==
    IF endswith(lower(file_path), DotM4a) \/ endswith(lower(file_path), DotWav)
    THEN Contents
    ELSE {Content("notopened", 0, 0, 0, 0)}

EnsureDirOutcomesFor(content) ==
    IF read_wav(content).raised THEN {"notcalled"} ELSE EnsureDirOutcomes

SavefigOutcomesFor(dirOutcome) ==
    IF dirOutcome = "ok" THEN SavefigOutcomes ELSE {"notcalled"}

\* ----------------------------------------------------------------- inputs
\* The text s in every letter case.
upper_char(c) == IF c >= 97 /\ c <= 122 THEN c - 32 ELSE c

CaseVariants(s) ==
    {[i \in 1..Len(s) |-> IF i \in U THEN upper_char(s[i]) ELSE s[i]] :
        U \in SUBSET (1..Len(s))}

Stems == {<<97>>}                                    \* "a"

Endings ==
    CaseVariants(DotWav) \cup CaseVariants(DotM4a) \cup
    {<<>>,
     <<46, 120, 121, 122>>,                          \* ".xyz"
     <<119, 97, 118>>,                               \* "wav"
     <<46, 119, 97, 118, 32>>,                       \* ".wav "
     <<46, 119, 97, 118, 46, 109, 52, 97>>,          \* ".wav.m4a"
     <<46, 109, 52, 97, 46, 116, 120, 116>>}         \* ".m4a.txt"

FilePaths == {s \o e : s \in Stems, e \in Endings} \cup {<<>>, DotWav}

WavFiles == {<<100, 47, 98, 46, 87, 65, 86>>}        \* "d/b.WAV"

OutputDirs == {<<>>, <<111>>, <<111, 47>>}           \* "", "o", "o/"

Filenames == {<<119, 46, 112, 110, 103>>,            \* "w.png"
              <<47, 119, 46, 112, 110, 103>>}        \* "/w.png"

InputPaths == {"in.m4a", "missing.m4a"}
OutputPaths == {"out.wav", "dir/out.wav"}

\* Bytes the encoder may write to its error stream: ' ' and the two bytes
\* 0xC3, 0xA9, which are U+00E9 in this order and no UTF-8 otherwise.
Bytes == {32, 195, 169}

RECURSIVE SeqsUpTo(_, _)
SeqsUpTo(S, n) ==
    IF n = 0 THEN {<<>>}
    ELSE LET shorter == SeqsUpTo(S, n - 1)
         IN shorter \cup {Append(s, x) : s \in shorter, x \in S}

Proc(kind, returncode, stderr) ==
    [kind |-> kind, returncode |-> returncode, stderr |-> stderr]

Procs ==
    {Proc("notfound", 0, <<>>), Proc("exit", 0, <<>>), Proc("exit", -9, <<>>)}
    \cup {Proc("exit", 1, s) : s \in SeqsUpTo(Bytes, MaxErrLen)}

\* ---------------------------------------------------------- state machine
Init ==
    /\ op = "none"
    /\ args = [none |-> TRUE]
    /\ events = <<>>
    /\ log = <<>>
    /\ wrapperLog = <<>>
    /\ outcome = "none"
    /\ exc = ""
    /\ ret = <<>>
    /\ cmd = <<>>
    /\ saved = <<>>
    /\ timeAxis = <<>>
    /\ figs = 0
    /\ figsBefore = 0

\* One call of operation name with arguments a, which did r.
Apply(name, a, r) ==
    /\ op' = name
    /\ args' = a
    /\ events' = r.events
    /\ log' = r.log
    /\ wrapperLog' = r.wrapperLog
    /\ outcome' = r.outcome
    /\ exc' = r.exc
    /\ ret' = r.ret
    /\ cmd' = r.cmd
    /\ saved' = r.saved
    /\ timeAxis' = r.time
    /\ figsBefore' = figs
    /\ figs' = r.figs

ConvertToWav ==
    \E input_path \in InputPaths, output_path \in OutputPaths, proc \in Procs :
        Apply("convert_to_wav",
              [input_path |-> input_path, output_path |-> output_path,
               proc |-> proc],
              safe_file_operation("rethrow",
                  convert_to_wav(input_path, output_path, proc, figs)))

GetAudioLength ==
    \E file_path \in FilePaths :
    \E content \in ContentsFor(file_path) :
        Apply("get_audio_length",
              [file_path |-> file_path, content |-> content],
              safe_file_operation("default",
                  get_audio_length(file_path, content, figs)))

\* A call is always possible; the model follows the process until MaxFigs
\* figures are open and leaves out only the calls that would open one more.
PlotWaveform ==
    \E wav_file \in WavFiles, output_path \in OutputDirs,
       filename \in Filenames, content \in Contents :
    \E dirOutcome \in EnsureDirOutcomesFor(content) :
    \E saveOutcome \in SavefigOutcomesFor(dirOutcome) :
        LET r == safe_file_operation("rethrow",
                     plot_waveform(wav_file, output_path, filename, content,
                                   dirOutcome, saveOutcome, figs))
        IN /\ r.figs <= MaxFigs
           /\ Apply("plot_waveform",
                    [wav_file |-> wav_file, output_path |-> output_path,
                     filename |-> filename, content |-> content,
                     dirOutcome |-> dirOutcome, saveOutcome |-> saveOutcome],
                    r)

Next == GetAudioLength \/ ConvertToWav \/ PlotWaveform

Spec == Init /\ [][Next]_vars

\* ------------------------------------------------- vocabulary of the claims
\* The path p ends in suffix written in any letter case.
EndsWithAnyCase(p, suffix) ==
    /\ Len(p) >= Len(suffix)
    /\ \E v \in CaseVariants(suffix) :
          \A i \in 1..Len(suffix) : p[Len(p) - Len(suffix) + i] = v[i]

\* The last call performed effect a, and later effect b.
Before(a, b) ==
    \E i, j \in DOMAIN events : i < j /\ events[i] = a /\ events[j] = b

Count(a) == Cardinality({i \in DOMAIN events : events[i] = a})

OneLine(level) == Len(log) = 1 /\ log[1].level = level

\* Comparison of exact fractions with positive denominators.
IsZero(v) == v.num = 0
Less(a, b) == a.num * b.den < b.num * a.den

\* Every line the last call wrote to the logging stream: those of the
\* function body, then those of the decorator.
LogStream == log \o wrapperLog

\* The body of the last call logged a line of this level and message.
Logged(level, text) ==
    \E i \in DOMAIN log : log[i].level = level /\ log[i].text = text

\* The stored file can be read as RIFF/WAVE into 16-bit samples.
ReadableWav(c) == c.kind = "wav" /\ c.databytes % 2 = 0

\* The number of 16-bit samples of a readable file.
Samples(c) == c.databytes \div 2

\* The stored file is damaged: the reader refuses it, or it declares a frame
\* rate of 0, or it was cut inside its data (a frame takes at least one
\* byte, so fewer data bytes than declared frames means lost data).
Corrupt(c) ==
    \/ c.kind \in {"shortread", "overrun", "garbage"}
    \/ c.kind = "wav" /\ (c.rate = 0 \/ c.databytes < c.nframes)

\* ------------------------------------------------------------------ claims
\* C1: after every call of plot_waveform, on every exit path, as many
\* figures are open as before the call.
C1_NoFigureLeak == op = "plot_waveform" => figs = figsBefore

\* C2: when the encoder exits with a non-zero status, convert_to_wav logs
\* the captured error stream at error level and re-signals the failure of
\* the encoder; it neither returns normally nor logs the success line.
C2_NonZeroExitLoggedAndRaised ==
    (op = "convert_to_wav" /\ args.proc.kind = "exit"
                           /\ args.proc.returncode # 0) =>
        /\ outcome = "raise"
        /\ Catches("CalledProcessError", exc)
        /\ OneLine("ERROR")
        /\ Logged("ERROR", "Error converting file {} to WAV: {}")
        /\ Count("logging.info") = 0
        /\ \A i \in DOMAIN log : log[i].level # "INFO"

\* C3: get_audio_length never raises: for a path ending in .m4a or .wav, a
\* failure to open or read the file (missing, corrupt, zero frame rate) is
\* caught by the function, logged by it at error level as its one line, and
\* the call returns 0.
C3_GetAudioLengthNeverRaises ==
    (op = "get_audio_length"
       /\ (EndsWithAnyCase(args.file_path, DotM4a)
            \/ EndsWithAnyCase(args.file_path, DotWav))) =>
        /\ outcome = "return"
        /\ (\/ (EndsWithAnyCase(args.file_path, DotM4a)
                  /\ args.content.kind # "mp4")
            \/ (EndsWithAnyCase(args.file_path, DotWav)
                  /\ (args.content.kind # "wav" \/ args.content.rate = 0)))
           => /\ ret = <<Zero>>
              /\ OneLine("ERROR")
              /\ log[1].text = "Error getting audio length for {}: {}"
              /\ wrapperLog = <<>>

C3_Witness ==
    /\ op = "get_audio_length"
    /\ EndsWithAnyCase(args.file_path, DotWav)
    /\ args.content.kind = "shortread"
    /\ outcome = "return"
    /\ ret = <<Zero>>
    /\ log = <<Line("ERROR", "Error getting audio length for {}: {}",
                    <<args.file_path, "EOFError">>)>>
    /\ wrapperLog = <<>>

\* C4: every call of each of the three operations emits exactly one log
\* line, informational or error, on every outcome: never none, never more.
C4_ExactlyOneLogLine ==
    op # "none" =>
        /\ Len(LogStream) = 1
        /\ LogStream[1].level \in {"INFO", "ERROR"}

\* C5: a return value of 0 from get_audio_length always means "duration
\* unknown": it is returned only with the error of an unsupported suffix or
\* a caught exception, never as the measured duration of a file that was
\* read.
C5_ZeroMeansUnknown ==
    (op = "get_audio_length" /\ outcome = "return" /\ IsZero(ret[1])) =>
        OneLine("ERROR")

\* C6: when plot_waveform is given a missing or corrupt WAV file (or one
\* whose samples cannot be read), the failure is logged and re-signaled, the
\* save step is not reached and no image is written.
C6_NoImageOnReadFailure ==
    (op = "plot_waveform"
       /\ (args.content.kind = "missing" \/ Corrupt(args.content)
            \/ ~ReadableWav(args.content))) =>
        /\ outcome = "raise"
        /\ Logged("ERROR", "Error plotting waveform for {}: {}")
        /\ Count("plt.savefig") = 0
        /\ saved = <<>>

\* C7: get_audio_length dispatches on the suffix of the name alone, compared
\* case-insensitively: .m4a takes the metadata path, .wav the frame-count
\* path, and any other name logs an error and returns 0 without opening the
\* file.
C7_SuffixDispatch ==
    op = "get_audio_length" =>
        IF EndsWithAnyCase(args.file_path, DotM4a)
        THEN events[1] = "MP4" /\ Count("wave.open") = 0
        ELSE IF EndsWithAnyCase(args.file_path, DotWav)
        THEN events[1] = "wave.open" /\ Count("MP4") = 0
        ELSE /\ events = <<"logging.error">>
             /\ outcome = "return"
             /\ ret = <<Zero>>
             /\ OneLine("ERROR")

C7_Witness ==
    /\ op = "get_audio_length"
    /\ args.file_path = <<97, 46, 87, 65, 86>>       \* "a.WAV"
    /\ args.content.kind = "wav"
    /\ args.content.rate > 0
    /\ events = <<"wave.open", "wave.close">>
    /\ ret = <<Frac(args.content.nframes, args.content.rate)>>

\* C8: in every successful call of plot_waveform the output directory is
\* ensured before the image is saved, the image is saved at output_path
\* joined with filename, and the informational line is logged only after
\* the save.
C8_EnsureSaveLogOrder ==
    (op = "plot_waveform" /\ outcome = "return") =>
        /\ Count("ensure_dir") = 1
        /\ Count("plt.savefig") = 1
        /\ Count("logging.info") = 1
        /\ Before("ensure_dir", "plt.savefig")
        /\ Before("plt.savefig", "logging.info")
        /\ OneLine("INFO")
        /\ saved = <<IF args.filename[1] = 47 THEN args.filename
                     ELSE IF args.output_path = <<>>
                             \/ args.output_path[Len(args.output_path)] = 47
                     THEN args.output_path \o args.filename
                     ELSE args.output_path \o <<47>> \o args.filename>>

C8_Witness ==
    /\ op = "plot_waveform"
    /\ outcome = "return"
    /\ args.output_path = <<111>>                    \* "o"
    /\ args.filename = <<119, 46, 112, 110, 103>>    \* "w.png"
    /\ saved = <<<<111, 47, 119, 46, 112, 110, 103>>>>
    /\ events[Len(events)] = "logging.info"

\* C9: every invocation of the encoder asks for 16-bit signed little-endian
\* PCM, one channel and 16000 Hz, with the caller's input path after -i and
\* the caller's output path as the last argument.
C9_FixedEncoderArguments ==
    op = "convert_to_wav" =>
        /\ Count("subprocess.run") = 1
        /\ cmd = <<"ffmpeg", "-i", args.input_path, "-acodec", "pcm_s16le",
                   "-ac", "1", "-ar", "16000", args.output_path>>

C9_Witness ==
    /\ op = "convert_to_wav"
    /\ args.input_path = "missing.m4a"
    /\ args.output_path = "dir/out.wav"
    /\ args.proc.returncode = 1
    /\ Len(cmd) = 10
    /\ cmd[3] = "missing.m4a"
    /\ cmd[10] = "dir/out.wav"

\* C10: for a file of N samples at frame rate R the time axis has N points
\* starting at 0, every one of them, the last included, strictly below N/R.
C10_TimeAxisHalfOpen ==
    (op = "plot_waveform" /\ ReadableWav(args.content)
                          /\ args.content.rate > 0) =>
        /\ Len(timeAxis) = Samples(args.content)
        /\ (Len(timeAxis) > 0 => IsZero(timeAxis[1]))
        /\ \A i \in DOMAIN timeAxis :
              Less(timeAxis[i], Frac(Samples(args.content), args.content.rate))

====
